---------------------------- MODULE Spec2Model ----------------------------
(***************************************************************************)
(* Model of the weather service: the hour-aligned background fetch loop of *)
(* main.py, the CSV appender of utils/csv_handler.py, the fetch functions  *)
(* of utils/weather_fetcher.py and the HTTP handlers of main.py.           *)
(*                                                                         *)
(* Wall-clock time is a pair [s, us]: whole seconds since 00:00:00 of day  *)
(* 0 and microseconds, the resolution of Python's datetime.  A datetime is *)
(* a record of its fields, a timedelta is the normalised (seconds,         *)
(* microseconds) pair Python keeps.                                        *)
(***************************************************************************)
EXTENDS Integers, Sequences, FiniteSets, TLC

VARIABLES
    clock,                \* wall-clock time [s, us]
    pc,                   \* position of the background thread
    now,                  \* background_fetch: now (a datetime)
    initial_delay,        \* background_fetch: initial_delay (a timedelta)
    latest_weather_data,  \* main.py global
    fetch_interval,       \* main.py global
    csv,                  \* the file at csv_path: [exists, lines]
    csv_start,            \* history: the file when the process started
    csv_before,           \* history: the file before the latest append call
    cycle,                \* number of loop iterations started
    fetchLog,             \* history: clock at the start of each cycle's fetch
    appendLog,            \* history: per append call of the loop, when it
                          \* returned, what it returned, whether the file system let it write
    last_request,         \* the last HTTP request served and its response
    fmt_in,               \* format_weather_data: the argument under test
    fmt_out               \* format_weather_data: its result

vars == <<clock, pc, now, initial_delay, latest_weather_data, fetch_interval,
          csv, csv_start, csv_before, cycle, fetchLog, appendLog, last_request,
          fmt_in, fmt_out>>

----------------------------------------------------------------------------
(* Bounds of the model *)

MaxCycles == 2        \* loop iterations explored
MaxDur == 1           \* longest fetch or append, in seconds

----------------------------------------------------------------------------
(* datetime and timedelta arithmetic *)

Micro == 1000 * 1000      \* microseconds in a second
Hour == 60 * 60           \* seconds in an hour
Day == 24 * Hour          \* seconds in a day

\* datetime.now(): the fields of the wall clock
DateTimeNow(c) ==
    [day |-> c.s \div Day, hour |-> (c.s % Day) \div Hour,
     minute |-> (c.s % Hour) \div 60, second |-> c.s % 60, microsecond |-> c.us]

\* now.replace(minute=0, second=0, microsecond=0)
ReplaceToHour(dt) == [dt EXCEPT !.minute = 0, !.second = 0, !.microsecond = 0]

\* seconds since 00:00:00 of day 0, without the microseconds
ToSeconds(dt) == ((dt.day * 24 + dt.hour) * 60 + dt.minute) * 60 + dt.second

\* a >= b on datetimes
DateTimeGE(a, b) ==
    \/ ToSeconds(a) > ToSeconds(b)
    \/ ToSeconds(a) = ToSeconds(b) /\ a.microsecond >= b.microsecond

\* dt + timedelta(hours=h)
AddHours(dt, h) ==
    LET t == ToSeconds(dt) + h * Hour
    IN  [day |-> t \div Day, hour |-> (t % Day) \div Hour,
         minute |-> (t % Hour) \div 60, second |-> t % 60,
         microsecond |-> dt.microsecond]

\* a - b on datetimes: a timedelta, microseconds normalised into 0..999999
DateTimeSub(a, b) ==
    LET ds == ToSeconds(a) - ToSeconds(b)
        du == a.microsecond - b.microsecond
    IN  IF du < 0 THEN [s |-> ds - 1, us |-> du + Micro]
                  ELSE [s |-> ds, us |-> du]

\* the hour boundary with "now > next_hour" in place of ">="
NextHourStrict(n) ==
    LET next_hour == ReplaceToHour(n)
    IN  IF DateTimeGE(n, next_hour) /\ n # next_hour THEN AddHours(next_hour, 1)
        ELSE next_hour

\* the hour boundary without the advance to the next hour
NextHourNoAdvance(n) == ReplaceToHour(n)

\* main.py lines 61-63: the hour boundary the loop waits for
NextHour(n) ==
    LET next_hour == ReplaceToHour(n)
    IN  IF DateTimeGE(n, next_hour) THEN AddHours(next_hour, 1) ELSE next_hour

\* main.py line 64: (next_hour - now).total_seconds(), kept exact
InitialDelay(n) == DateTimeSub(NextHour(n), n)

\* the clock after time.sleep(d)
ClockAfter(c, d) ==
    LET u == c.us + d.us
    IN  [s |-> c.s + d.s + u \div Micro, us |-> u % Micro]

Seconds(n) == [s |-> n, us |-> 0]


----------------------------------------------------------------------------
(* Python and JSON values.  Every value is a record of one shape: kind,   *)
(* text, n, map.  A dict keeps its items in map; a number keeps its value  *)
(* in n (0.00 is a float, 0 an int: to_csv writes them differently).       *)

EmptyMap == [k \in {} |-> 0]

PyInt(n) == [kind |-> "int", text |-> "", n |-> n, map |-> EmptyMap]
PyFloat(n) == [kind |-> "float", text |-> "", n |-> n, map |-> EmptyMap]
PyStr(t, n) == [kind |-> "str", text |-> t, n |-> n, map |-> EmptyMap]
PyNone == [kind |-> "None", text |-> "", n |-> 0, map |-> EmptyMap]
PyList == [kind |-> "list", text |-> "", n |-> 0, map |-> EmptyMap]
PyDict(m) == [kind |-> "dict", text |-> "", n |-> 0, map |-> m]

EmptyDict == PyDict(EmptyMap)

\* the outcome of evaluating a call: a value returned or an exception raised
Return(v) == [raised |-> FALSE, value |-> v]
Raise == [raised |-> TRUE, value |-> PyNone]

\* d.get(key, default): an AttributeError when d is no dict
Get(d, key, default) ==
    IF d.kind # "dict" THEN Raise
    ELSE IF key \in DOMAIN d.map THEN Return(d.map[key])
    ELSE Return(default)

\* datetime.strftime("%Y-%m-%dT%H:%M"): the text keeps the date, the hour
\* and the minute; seconds and microseconds are dropped
StrfTime(dt) == PyStr("%Y-%m-%dT%H:%M", (dt.day * 24 + dt.hour) * 60 + dt.minute)

----------------------------------------------------------------------------
(* utils/csv_handler.py *)

COLUMNS ==
    << "time", "temperature_2m (°C)", "relative_humidity_2m (%)",
       "precipitation (mm)", "rain (mm)", "weather_code (wmo code)",
       "cloud_cover (%)", "surface_pressure (hPa)", "wind_speed_10m (km/h)",
       "wind_direction_10m (°)", "is_day ()" >>

\* the key of current_data read for each column, in the order of the dict
\* literal of format_weather_data
FIELDS ==
    << "time", "temperature_2m", "relative_humidity_2m", "precipitation",
       "rain", "weather_code", "cloud_cover", "surface_pressure",
       "wind_speed_10m", "wind_direction_10m", "is_day" >>

\* the label each item of the dict literal is stored under
FormatKeys ==
    << "time", "temperature_2m (°C)", "relative_humidity_2m (%)",
       "precipitation (mm)", "rain (mm)", "weather_code (wmo code)",
       "cloud_cover (%)", "surface_pressure (hPa)", "wind_speed_10m (km/h)",
       "wind_direction_10m (°)", "is_day ()" >>

\* the defaults with 0 for every numeric field, precipitation and rain too
FormatDefaultAllInt(i, c) ==
    IF i = 1 THEN StrfTime(DateTimeNow(c)) ELSE PyInt(0)

\* the default of each current_data.get(...) of format_weather_data
FormatDefault(i, c) ==
    IF i = 1 THEN StrfTime(DateTimeNow(c))
    ELSE IF i \in {4, 5} THEN PyFloat(0)
    ELSE PyInt(0)

\* the function reading weather_data["current_data"] in place of .get: a
\* KeyError when the key is missing
format_weather_data_indexing(weather_data, c) ==
    IF weather_data.kind # "dict" \/ "current_data" \notin DOMAIN weather_data.map
    THEN Raise
    ELSE IF weather_data.map["current_data"].kind # "dict" THEN Raise
    ELSE Return([i \in 1..Len(FIELDS) |->
             [key |-> FormatKeys[i],
              value |-> Get(weather_data.map["current_data"], FIELDS[i],
                            FormatDefault(i, c)).value]])

\* format_weather_data(weather_data), called when the wall clock shows c.
\* The result is the dict in insertion order: a sequence of [key, value].
format_weather_data(weather_data, c) ==
    LET cd == Get(weather_data, "current_data", EmptyDict)
    IN  IF cd.raised THEN Raise
        ELSE IF cd.value.kind # "dict" THEN Raise
        ELSE Return([i \in 1..Len(FIELDS) |->
                 [key |-> FormatKeys[i],
                  value |-> Get(cd.value, FIELDS[i], FormatDefault(i, c)).value]])


\* a missing cell of a DataFrame
NaN == [kind |-> "nan", text |-> "", n |-> 0, map |-> EmptyMap]

\* pd.DataFrame([formatted_data], columns=COLUMNS): the one row of the frame,
\* a cell per column of COLUMNS, taken from the item of that key
DataFrameRow(formatted) ==
    [i \in 1..Len(COLUMNS) |->
        IF \E j \in 1..Len(formatted) : formatted[j].key = COLUMNS[i]
        THEN formatted[CHOOSE j \in 1..Len(formatted) :
                           formatted[j].key = COLUMNS[i]].value
        ELSE NaN]

\* the header line to_csv writes for the frame: its column labels
HeaderLine == [i \in 1..Len(COLUMNS) |-> PyStr(COLUMNS[i], 0)]

\* the file at csv_path: whether it exists and the lines it holds
AbsentFile == [exists |-> FALSE, lines |-> << >>]
EmptyFile == [exists |-> TRUE, lines |-> << >>]

\* os.path.exists(csv_path)
PathExists(f) == f.exists

\* os.path.getsize(csv_path), counted in lines: 0 exactly for an empty file
GetSize(f) == Len(f.lines)

\* the header decision by existence alone, without the size
WriteHeaderIfAbsent(f) == ~PathExists(f)

\* csv_handler.py line 100
WriteHeader(f) == ~(PathExists(f) /\ GetSize(f) > 0)

\* what the file system lets a call do: the open fails (permission denied,
\* missing parent directory), the write fails after the open (disk full),
\* or the call goes through
IoOutcomes == {"ok", "open_error", "write_error"}

\* the open with mode="w": creates the file or empties it
OpenTruncate(f) == [exists |-> TRUE, lines |-> << >>]

\* open(csv_path, mode="a"): creates the file if absent, keeps what it holds
OpenAppend(f) == [exists |-> TRUE, lines |-> f.lines]

\* df.to_csv(csv_path, mode="a", header=write_header, index=False)
ToCsv(f, row, write_header, io) ==
    IF io = "open_error" THEN [raised |-> TRUE, file |-> f]
    ELSE IF io = "write_error" THEN [raised |-> TRUE, file |-> OpenAppend(f)]
    ELSE [raised |-> FALSE,
          file |-> [exists |-> TRUE,
                    lines |-> OpenAppend(f).lines
                              \o (IF write_header THEN << HeaderLine >> ELSE << >>)
                              \o << row >>]]

\* the try block of append_weather_data_to_csv, lines 96-104
AppendTry(weather_data, f, c, io) ==
    LET formatted_data == format_weather_data(weather_data, c)
    IN  IF formatted_data.raised THEN [raised |-> TRUE, file |-> f]
        ELSE ToCsv(f, DataFrameRow(formatted_data.value), WriteHeader(f), io)

\* the function without its except clause
append_no_except(weather_data, f, c, io) ==
    LET r == AppendTry(weather_data, f, c, io)
    IN  [raised |-> r.raised, ok |-> ~r.raised, file |-> r.file]

\* append_weather_data_to_csv(weather_data, csv_path): the value returned,
\* whether an exception left the call, and the file afterwards
append_weather_data_to_csv(weather_data, f, c, io) ==
    LET r == AppendTry(weather_data, f, c, io)
    IN  IF r.raised THEN [raised |-> FALSE, ok |-> FALSE, file |-> r.file]
        ELSE [raised |-> FALSE, ok |-> TRUE, file |-> r.file]

----------------------------------------------------------------------------
(* utils/weather_fetcher.py *)

\* What requests.get(url, params) does: it raises (connection error,
\* timeout) or gives a response with a status code and a body; the body is
\* valid JSON or not.
NetError == [error |-> TRUE, status |-> 0, valid |-> FALSE, json |-> PyNone]
Response(status, valid, json) ==
    [error |-> FALSE, status |-> status, valid |-> valid, json |-> json]

\* response.raise_for_status(): an HTTPError for a 4xx or 5xx status
RaiseForStatus(resp) == 400 <= resp.status /\ resp.status < 600

\* requests.get, raise_for_status and response.json() in turn: data, or the
\* exception one of them raises
GetJson(net) ==
    IF net.error THEN Raise
    ELSE IF RaiseForStatus(net) THEN Raise
    ELSE IF ~net.valid THEN Raise
    ELSE Return(net.json)

\* the "metadata" item built by fetch_hourly_weather_data and
\* fetch_current_weather_data
Metadata(data) ==
    PyDict([k \in {"coordinates", "elevation", "timezone",
                   "timezone_abbreviation", "utc_offset_seconds"} |->
        IF k = "coordinates"
        THEN PyDict([c \in {"latitude", "longitude"} |-> Get(data, c, PyNone).value])
        ELSE Get(data, k, PyNone).value])

\* the try block of fetch_historic_weather_data, lines 47-79
HistoricTry(net) == GetJson(net)

\* the function without its except clause
fetch_historic_no_except(net) == HistoricTry(net)

fetch_historic_weather_data(net) ==
    LET r == HistoricTry(net)
    IN  IF r.raised THEN Return(EmptyDict) ELSE r

\* the try block of fetch_hourly_weather_data, lines 106-147
HourlyTry(net) ==
    LET data == GetJson(net)
    IN  IF data.raised THEN Raise
        ELSE IF Get(data.value, "hourly", EmptyDict).raised THEN Raise
        ELSE Return(PyDict([k \in {"hourly_data", "daily_data", "metadata"} |->
                 IF k = "hourly_data" THEN Get(data.value, "hourly", EmptyDict).value
                 ELSE IF k = "daily_data" THEN Get(data.value, "daily", EmptyDict).value
                 ELSE Metadata(data.value)]))

fetch_hourly_weather_data(net) ==
    LET r == HourlyTry(net)
    IN  IF r.raised THEN Return(EmptyDict) ELSE r

\* the try block of fetch_current_weather_data, lines 175-216
CurrentTry(net) ==
    LET data == GetJson(net)
    IN  IF data.raised THEN Raise
        ELSE IF Get(data.value, "current", EmptyDict).raised THEN Raise
        ELSE Return(PyDict([k \in {"current_data", "current_data_units", "metadata"} |->
                 IF k = "current_data" THEN Get(data.value, "current", EmptyDict).value
                 ELSE IF k = "current_data_units"
                      THEN Get(data.value, "current_units", EmptyDict).value
                 ELSE Metadata(data.value)]))

fetch_current_weather_data(net) ==
    LET r == CurrentTry(net)
    IN  IF r.raised THEN Return(EmptyDict) ELSE r


----------------------------------------------------------------------------
(* The inputs explored *)

\* a measurement as the provider gives it for the i-th field
SampleValue(i) ==
    IF i = 1 THEN PyStr("%Y-%m-%dT%H:%M", 7)
    ELSE IF i \in {2, 4, 5, 8, 9} THEN PyFloat(i)
    ELSE PyInt(i)

FieldIndex(k) == CHOOSE i \in 1..Len(FIELDS) : FIELDS[i] = k

\* a "current" object holding the fields numbered in S
CurrentOf(S) == PyDict([k \in {FIELDS[i] : i \in S} |-> SampleValue(FieldIndex(k))])

AllFields == 1..Len(FIELDS)

\* bodies that parse as JSON
JsonBodies ==
    { PyList,
      PyDict(("current" :> CurrentOf(AllFields))
             @@ ("current_units" :> PyDict("time" :> PyStr("iso8601", 0)))
             @@ ("hourly" :> CurrentOf({1, 2}))
             @@ ("latitude" :> PyFloat(28)) @@ ("longitude" :> PyFloat(77))),
      PyDict("current" :> PyNone) }

\* status codes of a response: 2xx, 3xx, 4xx and 5xx
Statuses == {200, 300, 404, 503}

NetOutcomes ==
    {NetError}
    \cup {Response(st, FALSE, PyNone) : st \in Statuses}
    \cup {Response(st, TRUE, j) : st \in Statuses, j \in JsonBodies}

\* moments at which the process is started
At(h, m, sec, us) == [s |-> (h * 60 + m) * 60 + sec, us |-> us]
StartTimes ==
    { At(14, 23, 10, 0), At(15, 0, 0, 0), At(15, 59, 59, 999999), At(23, 30, 0, 500000) }

\* a file left by an earlier run: the header and one row
OldFile == [exists |-> TRUE, lines |-> << HeaderLine, [i \in 1..Len(COLUMNS) |-> PyInt(1)] >>]

Durations == {0, MaxDur}

\* values of the seconds parameter sent to POST /update-frequency
SecondsSent == {0, 1, 7200}

----------------------------------------------------------------------------
(* main.py: the background thread *)

FetchIntervalDefault == 3600   \* main.py line 38
LoopSleep == 3600              \* main.py line 84

\* an HTTP request served: the endpoint, the seconds parameter sent, what the
\* provider did during it, and the status and body of the response
Request(endpoint, seconds, net, status, body) ==
    [endpoint |-> endpoint, seconds |-> seconds, net |-> net,
     status |-> status, body |-> body]

NoRequest == Request("", 0, NetError, 0, PyNone)
NoDateTime == DateTimeNow(Seconds(0))

Init ==
    /\ clock \in StartTimes
    /\ pc = "start"
    /\ now = NoDateTime
    /\ initial_delay = Seconds(0)
    /\ latest_weather_data = EmptyDict
    /\ fetch_interval = FetchIntervalDefault
    /\ csv \in {AbsentFile, EmptyFile, OldFile}
    /\ csv_start = csv
    /\ csv_before = csv
    /\ cycle = 0
    /\ fetchLog = << >>
    /\ appendLog = << >>
    /\ last_request = NoRequest
    /\ fmt_in = EmptyDict
    /\ fmt_out = Return(<< >>)

\* lines 60-64: read the clock and compute the wait to the next hour
BgStart ==
    /\ pc = "start"
    /\ now' = DateTimeNow(clock)
    /\ initial_delay' = InitialDelay(DateTimeNow(clock))
    /\ pc' = "initial_sleep"
    /\ UNCHANGED <<clock, latest_weather_data, fetch_interval, csv, csv_start,
                   csv_before, cycle,
                   fetchLog, appendLog, last_request, fmt_in, fmt_out>>

\* line 70: time.sleep(initial_delay) returns and the loop is entered
BgInitialWake ==
    /\ pc = "initial_sleep"
    /\ cycle < MaxCycles
    /\ clock' = ClockAfter(clock, initial_delay)
    /\ pc' = "fetch"
    /\ cycle' = cycle + 1
    /\ fetchLog' = Append(fetchLog, clock')
    /\ UNCHANGED <<now, initial_delay, latest_weather_data, fetch_interval, csv,
                   csv_start, csv_before, appendLog, last_request, fmt_in, fmt_out>>

\* line 76: latest_weather_data = fetch_current_weather_data(); the call
\* takes d seconds and an exception leaving it would end the thread
BgFetch ==
    /\ pc = "fetch"
    /\ \E net \in NetOutcomes, d \in Durations :
          LET r == fetch_current_weather_data(net)
          IN  /\ latest_weather_data' = IF r.raised THEN latest_weather_data ELSE r.value
              /\ pc' = IF r.raised THEN "exited" ELSE "append"
              /\ clock' = ClockAfter(clock, Seconds(d))
    /\ UNCHANGED <<now, initial_delay, fetch_interval, csv, csv_start,
                   csv_before, cycle, fetchLog,
                   appendLog, last_request, fmt_in, fmt_out>>

\* lines 79-82: append_weather_data_to_csv(latest_weather_data); either
\* branch of the if only logs
BgAppend ==
    /\ pc = "append"
    /\ \E io \in IoOutcomes, d \in Durations :
          LET r == append_weather_data_to_csv(latest_weather_data, csv, clock, io)
          IN  /\ csv' = r.file
              /\ pc' = IF r.raised THEN "exited" ELSE "sleep"
              /\ clock' = ClockAfter(clock, Seconds(d))
              /\ csv_before' = csv
              /\ appendLog' = Append(appendLog, [at |-> clock', ok |-> r.ok, io_ok |-> io = "ok"])
    /\ UNCHANGED <<now, initial_delay, latest_weather_data, fetch_interval,
                   csv_start, cycle, fetchLog, last_request, fmt_in, fmt_out>>

\* the loop sleeping time.sleep(fetch_interval) in place of time.sleep(3600)
BgSleepByInterval ==
    /\ pc = "sleep"
    /\ cycle < MaxCycles
    /\ clock' = ClockAfter(clock, Seconds(fetch_interval))
    /\ pc' = "fetch"
    /\ cycle' = cycle + 1
    /\ fetchLog' = Append(fetchLog, clock')
    /\ UNCHANGED <<now, initial_delay, latest_weather_data, fetch_interval, csv,
                   csv_start, csv_before, appendLog, last_request, fmt_in, fmt_out>>

\* line 84: time.sleep(3600) returns and the next iteration begins
BgSleep ==
    /\ pc = "sleep"
    /\ cycle < MaxCycles
    /\ clock' = ClockAfter(clock, Seconds(LoopSleep))
    /\ pc' = "fetch"
    /\ cycle' = cycle + 1
    /\ fetchLog' = Append(fetchLog, clock')
    /\ UNCHANGED <<now, initial_delay, latest_weather_data, fetch_interval, csv,
                   csv_start, csv_before, appendLog, last_request, fmt_in, fmt_out>>

----------------------------------------------------------------------------
(* main.py: the HTTP handlers *)

\* the validation with ge=0 in place of gt=0
QueryValidGe(seconds) == seconds >= 0

\* Query(..., gt=0): the request reaches the handler only when this holds
QueryValid(seconds) == seconds > 0

\* POST /update-frequency?seconds=...: a 422 from the validation, or the
\* handler of lines 142-145
UpdateFrequency ==
    /\ \E seconds \in SecondsSent :
          IF QueryValid(seconds)
          THEN /\ fetch_interval' = seconds
               /\ last_request' = Request("/update-frequency", seconds, NetError, 200, PyNone)
          ELSE /\ fetch_interval' = fetch_interval
               /\ last_request' = Request("/update-frequency", seconds, NetError, 422, PyNone)
    /\ UNCHANGED <<clock, pc, now, initial_delay, latest_weather_data, csv, csv_start,
                   csv_before, cycle,
                   fetchLog, appendLog, fmt_in, fmt_out>>

\* what the framework answers for a handler's outcome: JSONResponse(content)
\* with status 200, or a 500 when an exception leaves the handler
Respond(endpoint, net, r) ==
    Request(endpoint, 0, net, IF r.raised THEN 500 ELSE 200, r.value)

\* GET /weather, lines 92-101
GetCurrentWeather ==
    /\ \E net \in NetOutcomes :
          last_request' = Respond("/weather", net, fetch_current_weather_data(net))
    /\ UNCHANGED <<clock, pc, now, initial_delay, latest_weather_data, fetch_interval,
                   csv, csv_start, csv_before, cycle, fetchLog, appendLog,
                   fmt_in, fmt_out>>

\* GET /weather/hourly, lines 104-114
GetHourlyWeather ==
    /\ \E net \in NetOutcomes :
          last_request' = Respond("/weather/hourly", net, fetch_hourly_weather_data(net))
    /\ UNCHANGED <<clock, pc, now, initial_delay, latest_weather_data, fetch_interval,
                   csv, csv_start, csv_before, cycle, fetchLog, appendLog,
                   fmt_in, fmt_out>>

\* GET /weather/historic, lines 117-127
GetHistoricWeather ==
    /\ \E net \in NetOutcomes :
          last_request' = Respond("/weather/historic", net, fetch_historic_weather_data(net))
    /\ UNCHANGED <<clock, pc, now, initial_delay, latest_weather_data, fetch_interval,
                   csv, csv_start, csv_before, cycle, fetchLog, appendLog,
                   fmt_in, fmt_out>>

Next == BgStart \/ BgInitialWake \/ BgFetch \/ BgAppend \/ BgSleep \/ UpdateFrequency

Spec == Init /\ [][Next]_vars


\* The service started at 14:23:10, under the scheduling the code relies
\* on: a time.sleep returns once its time has passed.  Nothing is assumed
\* of the fetch or of the append (requests.get has no timeout).
InitLive == Init /\ clock = At(14, 23, 10, 0)

LiveSpec == InitLive /\ [][Next]_vars /\ WF_vars(BgInitialWake) /\ WF_vars(BgSleep)

----------------------------------------------------------------------------
(* The request handlers alone: they share no state with the background     *)
(* thread (get_current_weather assigns a local latest_weather_data).       *)

NextApi == GetCurrentWeather \/ GetHourlyWeather \/ GetHistoricWeather \/ UpdateFrequency

SpecApi == Init /\ [][NextApi]_vars

----------------------------------------------------------------------------
(* The initial delay for every second of a day *)

SubSeconds == {0, 1, 999999}

InitDelay ==
    /\ clock \in [s : 0..(Day - 1), us : SubSeconds]
    /\ pc = "start"
    /\ now = NoDateTime
    /\ initial_delay = Seconds(0)
    /\ latest_weather_data = EmptyDict
    /\ fetch_interval = FetchIntervalDefault
    /\ csv = AbsentFile
    /\ csv_start = csv
    /\ csv_before = csv
    /\ cycle = 0
    /\ fetchLog = << >>
    /\ appendLog = << >>
    /\ last_request = NoRequest
    /\ fmt_in = EmptyDict
    /\ fmt_out = Return(<< >>)

SpecDelay == InitDelay /\ [][BgStart]_vars

----------------------------------------------------------------------------
(* format_weather_data on every subset of the fields *)

\* a "current_data" holding the fields numbered in S, each with the value
\* the provider gave or with a JSON null
CurrentNulls(S) == PyDict([k \in {FIELDS[i] : i \in S} |-> PyNone])

FormatInputs ==
    {EmptyDict, PyDict("current_data" :> PyNone)}
    \cup {PyDict("current_data" :> CurrentOf(S)) : S \in SUBSET AllFields}
    \cup {PyDict(("current_data" :> CurrentNulls(S)) @@ ("metadata" :> EmptyDict)) :
              S \in SUBSET AllFields}

InitFormat ==
    /\ clock \in StartTimes
    /\ pc = "format"
    /\ now = NoDateTime
    /\ initial_delay = Seconds(0)
    /\ latest_weather_data = EmptyDict
    /\ fetch_interval = FetchIntervalDefault
    /\ csv = AbsentFile
    /\ csv_start = csv
    /\ csv_before = csv
    /\ cycle = 0
    /\ fetchLog = << >>
    /\ appendLog = << >>
    /\ last_request = NoRequest
    /\ fmt_in \in FormatInputs
    /\ fmt_out = Return(<< >>)

\* a call format_weather_data(fmt_in)
Format ==
    /\ pc = "format"
    /\ fmt_out' = format_weather_data(fmt_in, clock)
    /\ pc' = "formatted"
    /\ UNCHANGED <<clock, now, initial_delay, latest_weather_data, fetch_interval,
                   csv, csv_start, csv_before, cycle, fetchLog, appendLog,
                   last_request, fmt_in>>

SpecFormat == InitFormat /\ [][Format]_vars


----------------------------------------------------------------------------
(* Properties *)

IsPrefix(a, b) == Len(a) <= Len(b) /\ SubSeq(b, 1, Len(a)) = a

\* the number of append calls of the loop that returned True
OkCount == Cardinality({i \in DOMAIN appendLog : appendLog[i].ok})

LastAppend == appendLog[Len(appendLog)]

\* a line of the file that is a data row: one cell per column, not the header
IsDataRow(line) == Len(line) = Len(COLUMNS) /\ line # HeaderLine

\* the moment is a wall-clock hour boundary: minute 0, second 0
OnTheHour(c) == c.s % Hour = 0 /\ c.us = 0

C2_InitialDelay ==
    pc = "initial_sleep" =>
        /\ initial_delay.s > 0 \/ initial_delay.us > 0
        /\ initial_delay.s < 3600 \/ initial_delay = Seconds(3600)
        /\ initial_delay.us \in 0..(Micro - 1)
        /\ OnTheHour([s |-> clock.s + initial_delay.s + (clock.us + initial_delay.us) \div Micro,
                      us |-> (clock.us + initial_delay.us) % Micro])
        /\ clock = At(14, 23, 10, 0) => initial_delay = Seconds(2210)
        /\ OnTheHour(clock) => initial_delay = Seconds(3600)

\* the delay computed exactly on an hour boundary
C2_Witness ==
    /\ pc = "initial_sleep"
    /\ clock = At(15, 0, 0, 0)
    /\ initial_delay = Seconds(3600)


\* the number of the wall-clock hour a moment lies in
HourOf(c) == c.s \div Hour

\* C3: every cycle starts its fetch on a wall-clock hour boundary, and the
\* i-th cycle's append falls in the i-th hour counted from the first fetch,
\* so that the loop persists one row per wall-clock hour.
C3_HourAligned ==
    /\ \A i \in DOMAIN fetchLog : OnTheHour(fetchLog[i])
    /\ \A i \in DOMAIN appendLog : HourOf(appendLog[i].at) = HourOf(fetchLog[1]) + (i - 1)

\* the thread was started at exactly 15:00:00
StartedAt15 == pc # "start" /\ now = DateTimeNow(At(15, 0, 0, 0))

ClockGE(a, b) == a.s > b.s \/ (a.s = b.s /\ a.us >= b.us)

\* the data rows the loop has added to the file
RowsAdded ==
    Len(csv.lines) - Len(csv_start.lines)
    - (IF csv_start.lines = << >> /\ csv.lines # << >> THEN 1 ELSE 0)

C5_AppendOnly ==
    appendLog # << >> =>
        /\ IsPrefix(csv_before.lines, csv.lines)
        /\ csv_before.exists => csv.exists

\* a call returned False on a file holding the header and rows
C5_Witness ==
    /\ Len(appendLog) = 2
    /\ appendLog[1].ok /\ ~appendLog[2].ok
    /\ Len(csv_before.lines) >= 2
    /\ csv.lines = csv_before.lines


\* the "current_data" of the argument of format_weather_data: the item, or
\* the empty mapping when the argument has none
GivenCurrent == IF "current_data" \in DOMAIN fmt_in.map THEN fmt_in.map["current_data"]
                ELSE EmptyDict

\* the text YYYY-MM-DDTHH:MM of the moment c: the minute it lies in
MinuteText(c) == PyStr("%Y-%m-%dT%H:%M", c.s \div 60)

\* C6: whatever fields the current_data of the argument lacks, the result
\* has exactly the 11 columns of COLUMNS in their order; a field present
\* keeps its value; a field missing is 0, or 0.00 for precipitation and
\* rain, or the current local time as YYYY-MM-DDTHH:MM for time.
C6_ElevenColumnsWithDefaults ==
    (pc = "formatted" /\ GivenCurrent.kind = "dict") =>
        /\ ~fmt_out.raised
        /\ Len(fmt_out.value) = 11
        /\ \A i \in 1..11 :
              /\ fmt_out.value[i].key = COLUMNS[i]
              /\ fmt_out.value[i].value =
                    IF FIELDS[i] \in DOMAIN GivenCurrent.map
                    THEN GivenCurrent.map[FIELDS[i]]
                    ELSE IF COLUMNS[i] = "time" THEN MinuteText(clock)
                    ELSE IF COLUMNS[i] \in {"precipitation (mm)", "rain (mm)"}
                         THEN PyFloat(0)
                    ELSE PyInt(0)

\* the argument is the entirely empty mapping and the row is all defaults
C6_Witness ==
    /\ pc = "formatted"
    /\ fmt_in = EmptyDict
    /\ ~fmt_out.raised
    /\ fmt_out.value[1].value = MinuteText(clock)
    /\ fmt_out.value[4].value = PyFloat(0)
    /\ fmt_out.value[11].value = PyInt(0)

\* the last request was served by one of the three fetch functions
FetchServed == last_request.endpoint \in {"/weather", "/weather/hourly", "/weather/historic"}

\* C7 as stated: no exception leaves a fetch function, and it returns the
\* empty mapping when the network call raises, the status is not 2xx, or the
\* body is not valid JSON.
C7_EmptyOnNon2xx ==
    FetchServed =>
        /\ last_request.status = 200
        /\ (\/ last_request.net.error
            \/ last_request.net.status \notin 200..299
            \/ ~last_request.net.valid) => last_request.body = EmptyDict

\* C7 amended: no exception leaves a fetch function, and it returns the
\* empty mapping when the network call raises, the status is 4xx or 5xx, or
\* the body is not valid JSON.
C7_EmptyOnError ==
    FetchServed =>
        /\ last_request.status = 200
        /\ (\/ last_request.net.error
            \/ last_request.net.status \in 400..599
            \/ ~last_request.net.valid) => last_request.body = EmptyDict

\* the provider answered 503 with a JSON body and the caller got {}
C7_Witness ==
    /\ last_request.endpoint = "/weather/historic"
    /\ ~last_request.net.error
    /\ last_request.net.status = 503
    /\ last_request.net.valid
    /\ last_request.body = EmptyDict

\* C8: fetch_interval is always positive; it is 3600 until a request is
\* accepted; a request with seconds > 0 is accepted and sets it to that
\* value, one with seconds <= 0 is rejected; and fetch_interval changes
\* only in the step of an accepted request.
C8_FetchIntervalPositive ==
    /\ [](fetch_interval > 0)
    /\ [](last_request = NoRequest => fetch_interval = 3600)
    /\ [](last_request.endpoint = "/update-frequency" =>
            /\ last_request.seconds > 0 =>
                  last_request.status = 200 /\ fetch_interval = last_request.seconds
            /\ last_request.seconds <= 0 => last_request.status = 422)
    /\ [][fetch_interval' # fetch_interval =>
            /\ last_request'.endpoint = "/update-frequency"
            /\ last_request'.status = 200
            /\ last_request'.seconds > 0
            /\ fetch_interval' = last_request'.seconds]_vars
    /\ [][(last_request'.endpoint = "/update-frequency" /\ last_request'.status = 422) =>
            fetch_interval' = fetch_interval]_vars

\* an accepted request set the interval, then a request with 0 was rejected
C8_Witness ==
    /\ last_request.endpoint = "/update-frequency"
    /\ last_request.seconds = 0
    /\ last_request.status = 422
    /\ fetch_interval = 7200


\* a row of defaults written by a call that returned at the moment at: 0 in
\* the numeric columns, 0.0 in precipitation and rain, and the minute in
\* which the call was made
IsDefaultRow(line, at) ==
    /\ Len(line) = 11
    /\ \E d \in Durations : line[1] = MinuteText([s |-> at.s - d, us |-> at.us])
    /\ \A i \in 2..11 : line[i] = IF i \in {4, 5} THEN PyFloat(0) ELSE PyInt(0)

\* C9: the thread never leaves the loop and every cycle makes exactly one
\* append call; after a failed fetch (the empty mapping) the call is still
\* made and, the file system permitting, returns True having added one row
\* of defaults (after the header on an empty file); the next cycle follows.
C9_AppendEveryCycle ==
    /\ pc # "exited"
    /\ pc = "sleep" => Len(appendLog) = cycle
    /\ pc \in {"fetch", "append"} => Len(appendLog) = cycle - 1
    /\ (pc = "sleep" /\ latest_weather_data = EmptyDict /\ LastAppend.io_ok) =>
          /\ LastAppend.ok
          /\ IsPrefix(csv_before.lines, csv.lines)
          /\ Len(csv.lines) = Len(csv_before.lines)
                              + (IF csv_before.lines = << >> THEN 2 ELSE 1)
          /\ IsDefaultRow(csv.lines[Len(csv.lines)], LastAppend.at)
    /\ (pc = "sleep" /\ cycle < MaxCycles) => ENABLED BgSleep

\* the first fetch failed, a row of defaults was appended, and the second
\* cycle has begun
C9_Witness ==
    /\ cycle = 2
    /\ pc = "fetch"
    /\ latest_weather_data = EmptyDict
    /\ appendLog[1].ok
    /\ IsDefaultRow(csv.lines[Len(csv.lines)], appendLog[1].at)

\* C10: the thread never leaves the loop, whatever the fetch and the append
\* do, and after the append of every cycle the next cycle's fetch
\* eventually starts (for the cycles within MaxCycles).
C10_LoopNeverExits ==
    /\ [](pc \in {"start", "initial_sleep", "fetch", "append", "sleep"})
    /\ [](appendLog # << >> /\ ~LastAppend.ok /\ Len(appendLog) = cycle => pc = "sleep")
    /\ \A n \in 1..(MaxCycles - 1) :
          (pc = "sleep" /\ cycle = n) ~> (pc = "fetch" /\ cycle = n + 1)

\* the append of the first cycle returned False and the second cycle's
\* fetch has started
C10_Witness ==
    /\ cycle = 2
    /\ pc = "fetch"
    /\ Len(appendLog) = 1
    /\ ~appendLog[1].ok


\* the state of the background thread and of what it writes
LoopState == <<clock, pc, now, initial_delay, latest_weather_data, csv, cycle,
               fetchLog, appendLog>>

============================================================================
